---- MODULE Spec2Model ----
(***************************************************************************)
(* Model of generateGroundTruth.py: the Phantom density model, the scene   *)
(* loader (PhantomScenario.ReadPhantomsFromConfiguration), the rasteriser  *)
(* (PhantomScenario.GenerateImage) and the batch driver                    *)
(* (FolderAnalyzer.makeAnalysis).                                          *)
(*                                                                         *)
(* Numbers are Python floats (IEEE-754 binary64, round to nearest, ties to *)
(* even).  A float is a record [s, m, e] of value (-1)^s * m * 2^e, where  *)
(* m is an odd natural of at most 53 bits held as a sequence of 14-bit     *)
(* limbs, least significant first (<<>> is zero).  Overflow, underflow and *)
(* subnormals are outside the value ranges used here.                      *)
(***************************************************************************)
EXTENDS Integers, Sequences, FiniteSets, TLC

(***************************************************************************)
(* Natural numbers of arbitrary size (the exact products, quotients and    *)
(* sums that a float operation rounds).                                    *)
(***************************************************************************)
LimbBits == 14
Base == 2 ^ LimbBits

RECURSIVE BNNorm(_)
BNNorm(a) == IF a = <<>> THEN <<>>
             ELSE IF a[Len(a)] = 0 THEN BNNorm(SubSeq(a, 1, Len(a) - 1)) ELSE a

RECURSIVE BNFromNat(_)
BNFromNat(n) == IF n = 0 THEN <<>> ELSE <<n % Base>> \o BNFromNat(n \div Base)

RECURSIVE BNToNat(_)
BNToNat(a) == IF a = <<>> THEN 0 ELSE a[1] + Base * BNToNat(Tail(a))

BNLimb(a, i) == IF i >= 1 /\ i <= Len(a) THEN a[i] ELSE 0

RECURSIVE BNCarry(_, _)
BNCarry(raw, c) ==
    IF raw = <<>> THEN (IF c = 0 THEN <<>> ELSE BNFromNat(c))
    ELSE LET s == raw[1] + c
         IN <<s % Base>> \o BNCarry(Tail(raw), s \div Base)

BNAdd(a, b) ==
    LET n == IF Len(a) > Len(b) THEN Len(a) ELSE Len(b)
    IN BNNorm(BNCarry([i \in 1..n |-> BNLimb(a, i) + BNLimb(b, i)], 0))

RECURSIVE BNBorrow(_, _)
BNBorrow(raw, c) ==
    IF raw = <<>> THEN <<>>
    ELSE LET s == raw[1] - c
         IN <<s % Base>> \o BNBorrow(Tail(raw), IF s < 0 THEN 1 ELSE 0)

\* a - b for a >= b
BNSub(a, b) == BNNorm(BNBorrow([i \in 1..Len(a) |-> a[i] - BNLimb(b, i)], 0))

RECURSIVE BNLtFrom(_, _, _)
BNLtFrom(a, b, i) == IF i = 0 THEN FALSE
                     ELSE IF a[i] # b[i] THEN a[i] < b[i]
                     ELSE BNLtFrom(a, b, i - 1)
BNLt(a, b) == IF Len(a) # Len(b) THEN Len(a) < Len(b) ELSE BNLtFrom(a, b, Len(a))

SmallBitLen(x) ==
    IF x = 0 THEN 0 ELSE CHOOSE k \in 1..LimbBits : 2 ^ (k - 1) <= x /\ x < 2 ^ k
BNBitLen(a) == IF a = <<>> THEN 0 ELSE LimbBits * (Len(a) - 1) + SmallBitLen(a[Len(a)])

\* a * 2^k
BNShl(a, k) ==
    LET q == k \div LimbBits
        r == k % LimbBits
        sh == [i \in 1..(Len(a) + 1) |->
                 ((BNLimb(a, i) * 2 ^ r) % Base) + (BNLimb(a, i - 1) \div 2 ^ (LimbBits - r))]
    IN IF a = <<>> THEN a ELSE BNNorm([i \in 1..q |-> 0] \o sh)

\* a \div 2^k
BNShr(a, k) ==
    LET q == k \div LimbBits
        r == k % LimbBits
        d == IF q >= Len(a) THEN <<>> ELSE SubSeq(a, q + 1, Len(a))
    IN BNNorm([i \in 1..Len(d) |->
                 (d[i] \div 2 ^ r) + (BNLimb(d, i + 1) % 2 ^ r) * 2 ^ (LimbBits - r)])

\* bit i of a, bit 1 the least significant
BNBit(a, i) == (BNLimb(a, ((i - 1) \div LimbBits) + 1) \div 2 ^ ((i - 1) % LimbBits)) % 2

RECURSIVE BNColumn(_, _, _, _)
BNColumn(a, b, k, i) ==
    IF i > Len(a) THEN 0
    ELSE a[i] * BNLimb(b, k + 1 - i) + BNColumn(a, b, k, i + 1)

BNMul(a, b) ==
    IF a = <<>> \/ b = <<>> THEN <<>>
    ELSE BNNorm(BNCarry([k \in 1..(Len(a) + Len(b)) |-> BNColumn(a, b, k, 1)], 0))

\* binary long division, most significant bit first; qr = <<quotient, remainder>>
RECURSIVE BNDivBits(_, _, _, _, _)
\* one step: q2 the quotient doubled, r2 the remainder doubled plus bit i of a
BNDivBit(a, b, i, n, q2, r2) ==
    IF BNLt(r2, b) THEN BNDivBits(a, b, i - 1, n - 1, <<q2, r2>>)
    ELSE BNDivBits(a, b, i - 1, n - 1, <<BNAdd(q2, <<1>>), BNSub(r2, b)>>)
BNDivBits(a, b, i, n, qr) ==
    IF n = 0 THEN qr
    ELSE BNDivBit(a, b, i, n, BNShl(qr[1], 1),
                  BNAdd(BNShl(qr[2], 1), BNFromNat(BNBit(a, i))))

\* the bits of limb l of a, after the limbs above it gave high
BNDivLimb(a, b, l, high) ==
    IF Len(high) = 2 THEN BNDivBits(a, b, l * LimbBits, LimbBits, high) ELSE high
RECURSIVE BNDivLimbs(_, _, _)
BNDivLimbs(a, b, l) ==
    IF l > Len(a) THEN <<(<<>>), (<<>>)>>
    ELSE BNDivLimb(a, b, l, BNDivLimbs(a, b, l + 1))
\* <<a \div b, a % b>> for b # 0
BNDivMod(a, b) == IF a = <<>> \/ b = <<>> THEN <<(<<>>), (<<>>)>> ELSE BNDivLimbs(a, b, 1)

RECURSIVE BNTrailingZeros(_)
BNTrailingZeros(a) ==
    IF a[1] = 0 THEN LimbBits + BNTrailingZeros(Tail(a))
    ELSE (CHOOSE k \in 1..LimbBits :
            a[1] % 2 ^ k # 0 /\ \A j \in 1..(k - 1) : a[1] % 2 ^ j = 0) - 1

(***************************************************************************)
(* Python float arithmetic: each operation is the exact result rounded to  *)
(* 53 significant bits, ties to even.                                      *)
(***************************************************************************)
MantissaBits == 53

FloatCanon(s, m, e) ==
    IF m = <<>> THEN [s |-> 0, m |-> <<>>, e |-> 0]
    ELSE LET tz == BNTrailingZeros(m)
         IN [s |-> s, m |-> BNShr(m, tz), e |-> e + tz]

FloatRound(s, N, E) ==
    IF BNBitLen(N) <= MantissaBits THEN FloatCanon(s, N, E)
    ELSE LET k == BNBitLen(N) - MantissaBits
             q == BNShr(N, k)
             sticky == BNShl(BNShr(N, k - 1), k - 1) # N
             up == BNBit(N, k) = 1 /\ (sticky \/ BNBit(q, 1) = 1)
         IN FloatCanon(s, IF up THEN BNAdd(q, <<1>>) ELSE q, E + k)

FloatOfInt(n) ==
    IF n < 0 THEN FloatCanon(1, BNFromNat(-n), 0) ELSE FloatCanon(0, BNFromNat(n), 0)

FloatMul(x, y) ==
    IF x.m = <<>> THEN x
    ELSE IF y.m = <<>> THEN y
    ELSE FloatRound((x.s + y.s) % 2, BNMul(x.m, y.m), x.e + y.e)

\* x / y for y # 0: the quotient to 55 bits or more, a sticky bit, then rounded
FloatQuotient(s, qr, E) ==
    FloatRound(s, BNAdd(BNShl(qr[1], 1), BNFromNat(IF qr[2] = <<>> THEN 0 ELSE 1)), E)
FloatDiv(x, y) ==
    IF x.m = <<>> \/ y.m = <<>> THEN x
    ELSE LET need == BNBitLen(y.m) + MantissaBits + 2 - BNBitLen(x.m)
             sh == IF need > 0 THEN need ELSE 0
         IN FloatQuotient((x.s + y.s) % 2, BNDivMod(BNShl(x.m, sh), y.m),
                          x.e - y.e - sh - 1)

FloatNeg(x) == IF x.m = <<>> THEN x ELSE [x EXCEPT !.s = 1 - x.s]

\* the sum of (-1)^xs * A * 2^em and (-1)^ys * B * 2^em
FloatSum(xs, A, ys, B, em) ==
    FloatRound(IF xs = ys \/ ~BNLt(A, B) THEN xs ELSE ys,
               IF xs = ys THEN BNAdd(A, B)
               ELSE IF BNLt(A, B) THEN BNSub(B, A) ELSE BNSub(A, B),
               em)
FloatAligned(x, y, em) == FloatSum(x.s, BNShl(x.m, x.e - em), y.s, BNShl(y.m, y.e - em), em)
FloatAdd(x, y) ==
    IF x.m = <<>> THEN y
    ELSE IF y.m = <<>> THEN x
    ELSE FloatAligned(x, y, IF x.e < y.e THEN x.e ELSE y.e)

FloatSub(x, y) == FloatAdd(x, FloatNeg(y))

FloatIsNegative(x) == x.m # <<>> /\ x.s = 1
FloatLt(x, y) == FloatIsNegative(FloatSub(x, y))

FloatIsZero(x) == x.m = <<>>

\* int(x): truncation toward zero
FloatToInt(x) ==
    LET mag == IF x.e >= 0 THEN BNShl(x.m, x.e) ELSE BNShr(x.m, -x.e)
    IN IF x.s = 1 THEN -BNToNat(mag) ELSE BNToNat(mag)

\* The float a decimal literal n/d denotes (source literal or JSON number):
\* the nearest float to the exact value.
Decimal(n, d) == FloatDiv(FloatOfInt(n), FloatOfInt(d))

\* max() of a non-empty list of floats: the first maximal element
RECURSIVE FloatMaxFrom(_, _, _)
FloatMaxFrom(list, i, best) ==
    IF i > Len(list) THEN best
    ELSE FloatMaxFrom(list, i + 1, IF FloatLt(best, list[i]) THEN list[i] ELSE best)
FloatMax(list) == FloatMaxFrom(list, 2, list[1])

(***************************************************************************)
(* Strings are sequences of one-character strings.                         *)
(***************************************************************************)
Digits == {"0", "1", "2", "3", "4", "5", "6", "7", "8", "9"}

\* sub in s
Contains(s, sub) ==
    \E i \in 1..(Len(s) - Len(sub) + 1) : SubSeq(s, i, i + Len(sub) - 1) = sub

\* re.search(r'\d+', name): the leftmost, longest run of digits, as the pair
\* <<first, last>> of its positions; <<0, 0>> when there is no match
DigitRun(name) ==
    IF \A i \in 1..Len(name) : name[i] \notin Digits THEN <<0, 0>>
    ELSE LET first == CHOOSE i \in 1..Len(name) :
                          /\ name[i] \in Digits
                          /\ \A j \in 1..(i - 1) : name[j] \notin Digits
             last == CHOOSE k \in first..Len(name) :
                          /\ \A j \in first..k : name[j] \in Digits
                          /\ (k = Len(name) \/ name[k + 1] \notin Digits)
         IN <<first, last>>

\* PhantomScenario.extract_index: the matched text (a str), else the int 0
extract_index(name) ==
    LET run == DigitRun(name)
    IN IF run[1] # 0 THEN [type |-> "str", text |-> SubSeq(name, run[1], run[2])]
       ELSE [type |-> "int", text |-> <<"0">>]

\* str(label)
Str(label) == label.text

DotJson == <<".", "j", "s", "o", "n">>
PhantomsPrefix == <<"P", "h", "a", "n", "t", "o", "m", "s", "_">>
DotPng == <<".", "p", "n", "g">>

\* the name GenerateImage saves under, inside output_dir
OutputName(label) == PhantomsPrefix \o Str(label) \o DotPng

(***************************************************************************)
(* Phantom                                                                 *)
(***************************************************************************)
materials == <<"lung", "brain", "fat", "bone">>
density == <<Decimal(296, 1000), Decimal(104, 100), Decimal(92, 100), Decimal(190, 100)>>

\* [i for i, mat in enumerate(materials) if self.material == mat]
MaterialIndexList_Default(material) ==
    IF \E i \in 1..Len(materials) : materials[i] = material
    THEN {i \in 1..Len(materials) : materials[i] = material}
    ELSE {1}
MaterialIndexList(material) == {i \in 1..Len(materials) : materials[i] = material}

\* opacity = [d * self.zsize for d in density]
OpacityList(zsize) == [i \in 1..Len(materials) |-> FloatMul(density[i], zsize)]

\* self.density = [density[index]/max(density)][0]
NormalizedDensity(index) == FloatDiv(density[index], FloatMax(density))

\* self.opacity = [opacity[index]/max(opacity)][0]
NormalizedOpacity_ByDensity(opacity, index) == FloatDiv(opacity[index], FloatMax(density))
NormalizedOpacity(opacity, index) == FloatDiv(opacity[index], FloatMax(opacity))

\* Phantom.set_density: the pair of self.density and self.opacity, or the
\* exception it raises
\* [...][0]
FirstIndex(found) == CHOOSE i \in found : \A j \in found : i <= j

\* lines 61-62 for the list opacity and the position index of the material
Normalized(opacity, index) ==
    IF FloatIsZero(FloatMax(opacity)) THEN [exc |-> "ZeroDivisionError"]
    ELSE [exc |-> "none",
          density |-> NormalizedDensity(index),
          opacity |-> NormalizedOpacity(opacity, index)]

set_density(material, zsize) ==
    IF MaterialIndexList(material) = {} THEN [exc |-> "IndexError"]
    ELSE Normalized(OpacityList(zsize), FirstIndex(MaterialIndexList(material)))

\* Phantom.__init__ on the values of one configuration entry
\* the object once set_density has given d, or the exception d
PhantomFields(name, material, xPos, yPos, zPos, xDir, yDir, zDir, radius, zsize, d) ==
    IF d.exc # "none" THEN d
    ELSE [exc |-> "none", name |-> name, material |-> material,
          xPos |-> xPos, yPos |-> yPos, zPos |-> zPos,
          xDir |-> xDir, yDir |-> yDir, zDir |-> zDir,
          radius |-> radius, zsize |-> zsize,
          density |-> d.density, opacity |-> d.opacity]
Phantom(name, material, xPos, yPos, zPos, xDir, yDir, zDir, radius, zsize) ==
    PhantomFields(name, material, xPos, yPos, zPos, xDir, yDir, zDir, radius, zsize,
                  set_density(material, zsize))

(***************************************************************************)
(* PhantomScenario.GenerateImage: geometry, intensity and raster           *)
(***************************************************************************)
\* i * n / size: centimetres to pixels
ToPixels_Inverted(i, n, size) == FloatDiv(FloatMul(i, FloatOfInt(size)), FloatOfInt(n))
ToPixels(i, n, size) == FloatDiv(FloatMul(i, FloatOfInt(n)), FloatOfInt(size))

\* int(255 - p.opacity * 255)
Intensity_Direct(opacity) == FloatToInt(FloatMul(opacity, FloatOfInt(255)))
Intensity(opacity) ==
    FloatToInt(FloatSub(FloatOfInt(255), FloatMul(opacity, FloatOfInt(255))))

\* One pass of the drawing loop for phantom p up to the call of draw.ellipse:
\* the centre, the radius and the bounding box in pixels, and the fill.
\* bbox = [x - r, y - r, x + r, y + r]
Bbox(x, y, r, fill) ==
    [x |-> x, y |-> y, r |-> r,
     bbox |-> <<FloatSub(x, r), FloatSub(y, r), FloatAdd(x, r), FloatAdd(y, r)>>,
     fill |-> fill]
\* center_x + x_0 for the coordinate i
FromCenter(i, n, size) == FloatAdd(FloatDiv(FloatOfInt(n), FloatOfInt(2)), ToPixels(i, n, size))
Project(p, params) ==
    Bbox(FromCenter(p.xPos, params.px, params.size_cm),
         FromCenter(p.yPos, params.px, params.size_cm),
         ToPixels(p.radius, params.px, params.size_cm),
         Intensity(p.opacity))

\* draw.ellipse(bbox, fill): the library truncates the box to integers and
\* fills the pixels (i, j) of the ellipse inscribed in it.
EllipseCovers(bbox, i, j) ==
    LET x0 == FloatToInt(bbox[1])
        y0 == FloatToInt(bbox[2])
        a == FloatToInt(bbox[3]) - x0
        b == FloatToInt(bbox[4]) - y0
        u == 2 * (i - x0) - a
        v == 2 * (j - y0) - b
    IN /\ a >= 0 /\ b >= 0
       /\ x0 <= i /\ i <= x0 + a
       /\ y0 <= j /\ j <= y0 + b
       /\ u * u * b * b + v * v * a * a <= a * a * b * b

Pixels(n) == (0..(n - 1)) \X (0..(n - 1))

\* Image.new('L', (n, n), 255)
NewImage(n) == [px \in Pixels(n) |-> 255]

\* the area one call of draw.ellipse paints, and its fill
Ellipse(g, n) ==
    [area |-> {px \in Pixels(n) : EllipseCovers(g.bbox, px[1], px[2])}, fill |-> g.fill]
Disc(p, params) == Ellipse(Project(p, params), params.px)

DrawDisc(img, disc) == [px \in DOMAIN img |-> IF px \in disc.area THEN disc.fill ELSE img[px]]

\* for p in self.phantoms: ... draw.ellipse(bbox, fill = opacity)
RECURSIVE DrawFrom(_, _, _)
DrawFrom(img, discs, k) ==
    IF k > Len(discs) THEN img ELSE DrawFrom(DrawDisc(img, discs[k]), discs, k + 1)

RECURSIVE DrawFrom_Reversed(_, _, _)
DrawFrom_Reversed(img, discs, k) ==
    IF k > Len(discs) THEN img
    ELSE DrawFrom_Reversed(DrawDisc(img, discs[Len(discs) + 1 - k]), discs, k + 1)

DrawPhantoms_Reversed(img, discs) == DrawFrom_Reversed(img, discs, 1)
DrawPhantoms(img, discs) == DrawFrom(img, discs, 1)

(***************************************************************************)
(* Configuration files                                                     *)
(*                                                                         *)
(* What open() and json.load() give for a file: "absent" (listed by        *)
(* os.listdir but os.path.exists is false: a dangling link), "badjson"     *)
(* (JSONDecodeError), "scalar" (valid JSON whose top level is a number),   *)
(* "nokey" (an object without "Phantoms"), "phantoms" (an object whose     *)
(* "Phantoms" is the array entries).  An entry is a function from its keys *)
(* to its values; a JSON number is the pair <<n, d>> of the decimal n/d.   *)
(***************************************************************************)
MaxFiles == 2
MaxEntries == 2
RasterPx == 4
RasterCm == 4

RequiredKeys == <<"name", "material", "xPos", "yPos", "zPos",
                  "xDir", "yDir", "zDir", "radius", "zsize">>

EntryBone == [name |-> "A", material |-> "bone", xPos |-> <<0, 1>>, yPos |-> <<0, 1>>,
              zPos |-> <<0, 1>>, xDir |-> <<0, 1>>, yDir |-> <<0, 1>>, zDir |-> <<1, 1>>,
              radius |-> <<1, 1>>, zsize |-> <<1, 1>>]
EntryFat == [name |-> "B", material |-> "fat", xPos |-> <<1, 1>>, yPos |-> <<0, 1>>,
             zPos |-> <<0, 1>>, xDir |-> <<0, 1>>, yDir |-> <<0, 1>>, zDir |-> <<1, 1>>,
             radius |-> <<1, 1>>, zsize |-> <<3, 1>>]
EntryNoRadius == [name |-> "C", material |-> "lung", xPos |-> <<0, 1>>, yPos |-> <<0, 1>>,
                  zPos |-> <<0, 1>>, xDir |-> <<0, 1>>, yDir |-> <<0, 1>>, zDir |-> <<1, 1>>,
                  zsize |-> <<1, 1>>]
EntryUnknownMaterial ==
    [name |-> "D", material |-> "Bone", xPos |-> <<0, 1>>, yPos |-> <<0, 1>>,
     zPos |-> <<0, 1>>, xDir |-> <<0, 1>>, yDir |-> <<0, 1>>, zDir |-> <<1, 1>>,
     radius |-> <<1, 1>>, zsize |-> <<1, 1>>]
EntryPool == {EntryBone, EntryFat, EntryNoRadius, EntryUnknownMaterial}

SeqsUpTo(S, n) == UNION {[1..k -> S] : k \in 0..n}

Contents ==
    {[kind |-> k, entries |-> <<>>] : k \in {"absent", "badjson", "scalar", "nokey"}}
    \cup {[kind |-> "phantoms", entries |-> es] : es \in SeqsUpTo(EntryPool, MaxEntries)}

NoData == [kind |-> "none", entries |-> <<>>]

\* the number a JSON literal parses to
Number(lit) == Decimal(lit[1], lit[2])

MissingKeys(p) == {k \in 1..Len(RequiredKeys) : RequiredKeys[k] \notin DOMAIN p}

\* Phantom(name = p["name"], ..., zsize = p["zsize"]): the keyword arguments
\* are evaluated in order, then the constructor runs
NewPhantom(p) ==
    IF MissingKeys(p) # {}
    THEN [exc |-> "KeyError",
          key |-> RequiredKeys[CHOOSE k \in MissingKeys(p) : \A j \in MissingKeys(p) : k <= j]]
    ELSE Phantom(p.name, p.material, Number(p.xPos), Number(p.yPos), Number(p.zPos),
                 Number(p.xDir), Number(p.yDir), Number(p.zDir),
                 Number(p.radius), Number(p.zsize))

NewPhantomMemo == [p \in EntryPool |-> NewPhantom(p)]

\* for i, p in enumerate(phantoms_data): ... self.phantoms.append(phantom);
\* both except clauses end in sys.exit()
RECURSIVE LoadFrom(_, _, _)
\* the body of the loop for entry i, r being what Phantom(...) gives
LoadEntry(entries, i, phantoms, r) ==
    IF r.exc = "none" THEN LoadFrom(entries, i + 1, Append(phantoms, r))
    ELSE [phantoms |-> phantoms, outcome |-> "exit",
          exc |-> IF r.exc = "KeyError" THEN "KeyError" ELSE "Exception"]
LoadFrom(entries, i, phantoms) ==
    IF i > Len(entries) THEN [phantoms |-> phantoms, outcome |-> "return", exc |-> "none"]
    ELSE LoadEntry(entries, i, phantoms, NewPhantomMemo[entries[i]])

\* the same loop with the failing entry skipped
RECURSIVE LoadFrom_Skip(_, _, _)
LoadEntry_Skip(entries, i, phantoms, r) ==
    IF r.exc = "none" THEN LoadFrom_Skip(entries, i + 1, Append(phantoms, r))
    ELSE LoadFrom_Skip(entries, i + 1, phantoms)
LoadFrom_Skip(entries, i, phantoms) ==
    IF i > Len(entries) THEN [phantoms |-> phantoms, outcome |-> "return", exc |-> "none"]
    ELSE LoadEntry_Skip(entries, i, phantoms, NewPhantomMemo[entries[i]])

LoadPhantoms_Skip(entries) == LoadFrom_Skip(entries, 1, <<>>)
LoadPhantoms(entries) == LoadFrom(entries, 1, <<>>)

\* PhantomScenario.ReadPhantomsFromConfiguration on a file of content c:
\* self.phantoms afterwards and how the call ends ("return", "exit" by
\* sys.exit(), "raise" by an exception nothing catches)
ReadPhantoms(c) ==
    CASE c.kind = "absent" -> [phantoms |-> <<>>, outcome |-> "return", exc |-> "none"]
      [] c.kind = "badjson" -> [phantoms |-> <<>>, outcome |-> "return", exc |-> "none"]
      [] c.kind = "scalar" -> [phantoms |-> <<>>, outcome |-> "raise", exc |-> "TypeError"]
      [] c.kind = "nokey" -> [phantoms |-> <<>>, outcome |-> "return", exc |-> "none"]
      [] c.kind = "phantoms" -> LoadPhantoms(c.entries)

(***************************************************************************)
(* FolderAnalyzer.makeAnalysis                                             *)
(***************************************************************************)
VARIABLES input_dir, conf_files, idx, pc, scene, data, img, outputs, written,
          exit_status, cause, probe

vars == <<input_dir, conf_files, idx, pc, scene, data, img, outputs, written,
          exit_status, cause, probe>>

image_params == [size_cm |-> RasterCm, px |-> RasterPx]

InputDirs == {<<".">>, <<".", "/", "r", "u", "n", "3">>}

FileNames == {<<"a", ".", "j", "s", "o", "n">>,
              <<"b", ".", "j", "s", "o", "n">>,
              <<"s", "c", "a", "n", "_", "0", "4", "2", ".", "j", "s", "o", "n">>,
              <<"c", "7", ".", "j", "s", "o", "n">>,
              <<"n", "o", "t", "e", "s", ".", "t", "x", "t">>}

\* os.listdir: distinct names in any order
Listings == {l \in SeqsUpTo(FileNames, MaxFiles) :
               \A i, j \in 1..Len(l) : i # j => l[i] # l[j]}

NoScene == [configuration_file |-> <<>>, label |-> [type |-> "int", text |-> <<"0">>],
            phantoms |-> <<>>]
NoImage == <<>>
Idle == [stage |-> "idle"]

DiscMemo ==
    [p \in {r \in {NewPhantomMemo[e] : e \in EntryPool} : r.exc = "none"}
       |-> Disc(p, image_params)]

Init ==
    /\ input_dir \in InputDirs
    /\ conf_files \in Listings
    /\ idx = 1
    /\ pc = "loop"
    /\ scene = NoScene
    /\ data = NoData
    /\ img = NoImage
    /\ outputs = <<>>
    /\ written = <<>>
    /\ exit_status = -1
    /\ cause = "none"
    /\ probe = Idle

\* for file in conf_files: if '.json' in file: (false)
SkipFile ==
    /\ pc = "loop"
    /\ idx <= Len(conf_files)
    /\ ~Contains(conf_files[idx], DotJson)
    /\ idx' = idx + 1
    /\ UNCHANGED <<input_dir, conf_files, pc, scene, data, img, outputs, written,
                   exit_status, cause, probe>>

\* scene = PhantomScenario(self.input_dir + '/' + file, self.output_dir, self.params)
NewScenario ==
    /\ pc = "loop"
    /\ idx <= Len(conf_files)
    /\ Contains(conf_files[idx], DotJson)
    /\ LET configuration_file == input_dir \o <<"/">> \o conf_files[idx]
       IN scene' = [configuration_file |-> configuration_file,
                    label |-> extract_index(configuration_file),
                    phantoms |-> <<>>]
    /\ data' = NoData
    /\ pc' = "read"
    /\ UNCHANGED <<input_dir, conf_files, idx, img, outputs, written,
                   exit_status, cause, probe>>

\* scene.ReadPhantomsFromConfiguration()
ReadPhantomsFromConfiguration ==
    /\ pc = "read"
    /\ \E c \in Contents : \E r \in {ReadPhantoms(c)} :
            /\ data' = c
            /\ scene' = [scene EXCEPT !.phantoms = r.phantoms]
            /\ pc' = IF r.outcome = "return" THEN "gen" ELSE "exit"
            /\ exit_status' = CASE r.outcome = "return" -> exit_status
                                [] r.outcome = "exit" -> 0
                                [] r.outcome = "raise" -> 1
            /\ cause' = IF r.outcome = "return" THEN cause ELSE r.exc
    /\ UNCHANGED <<input_dir, conf_files, idx, img, outputs, written, probe>>

\* scene.GenerateImage(); img.save may fail, and then sys.exit()
GenerateImage ==
    /\ pc = "gen"
    /\ img' = DrawPhantoms(NewImage(image_params.px),
                            [k \in 1..Len(scene.phantoms) |-> DiscMemo[scene.phantoms[k]]])
    /\ LET name == OutputName(scene.label)
       IN \E saved \in BOOLEAN :
               IF saved
               THEN /\ outputs' = [f \in DOMAIN outputs \cup {name} |->
                                     IF f = name THEN img' ELSE outputs[f]]
                    /\ written' = Append(written, [file |-> idx, name |-> name, image |-> img'])
                    /\ idx' = idx + 1
                    /\ pc' = "loop"
                    /\ UNCHANGED <<exit_status, cause>>
               ELSE /\ pc' = "exit"
                    /\ exit_status' = 0
                    /\ cause' = "SaveError"
                    /\ UNCHANGED <<outputs, written, idx>>
    /\ UNCHANGED <<input_dir, conf_files, scene, data, probe>>

\* the loop ends and the interpreter exits
Finish ==
    /\ pc = "loop"
    /\ idx > Len(conf_files)
    /\ pc' = "exit"
    /\ exit_status' = 0
    /\ cause' = "completed"
    /\ UNCHANGED <<input_dir, conf_files, idx, scene, data, img, outputs, written, probe>>

Next == SkipFile \/ NewScenario \/ ReadPhantomsFromConfiguration \/ GenerateImage \/ Finish

Spec == Init /\ [][Next]_vars

(***************************************************************************)
(* One phantom through Phantom.__init__ and one pass of the drawing loop,  *)
(* with the parameters the main block passes.                              *)
(***************************************************************************)
MaxZHalves == 6

main_params == [size_cm |-> 25, px |-> 512]

ProbeArgs ==
    [material : {materials[i] : i \in 1..Len(materials)},
     zsize : {<<k, 2>> : k \in 1..MaxZHalves},
     xPos : {<<0, 1>>, <<25, 2>>, <<-5, 2>>},
     yPos : {<<0, 1>>, <<5, 1>>},
     radius : {<<0, 1>>, <<5, 1>>}]

InitPhantom ==
    /\ probe \in {[stage |-> "args", args |-> a] : a \in ProbeArgs}
    /\ input_dir = <<".">>
    /\ conf_files = <<>>
    /\ idx = 1
    /\ pc = "probe"
    /\ scene = NoScene
    /\ data = NoData
    /\ img = NoImage
    /\ outputs = <<>>
    /\ written = <<>>
    /\ exit_status = -1
    /\ cause = "none"

\* Phantom(...)
ConstructPhantom ==
    /\ pc = "probe"
    /\ probe.stage = "args"
    /\ LET a == probe.args
       IN probe' = [stage |-> "phantom", args |-> a,
                    phantom |-> Phantom("P", a.material, Number(a.xPos), Number(a.yPos),
                                        FloatOfInt(0), FloatOfInt(0), FloatOfInt(0),
                                        FloatOfInt(1), Number(a.radius), Number(a.zsize))]
    /\ UNCHANGED <<input_dir, conf_files, idx, pc, scene, data, img, outputs, written,
                   exit_status, cause>>

\* the body of "for p in self.phantoms" up to the bounding box
ProjectPhantom ==
    /\ pc = "probe"
    /\ probe.stage = "phantom"
    /\ probe' = [stage |-> "projected", args |-> probe.args, phantom |-> probe.phantom,
                 geom |-> Project(probe.phantom, main_params)]
    /\ UNCHANGED <<input_dir, conf_files, idx, pc, scene, data, img, outputs, written,
                   exit_status, cause>>

NextPhantom == ConstructPhantom \/ ProjectPhantom

SpecPhantom == InitPhantom /\ [][NextPhantom]_vars

(***************************************************************************)
(* Properties                                                              *)
(***************************************************************************)
MaterialSet == {materials[i] : i \in 1..Len(materials)}

\* the positions of the entries of a "Phantoms" array that satisfy Bad
FirstOf(S) == CHOOSE i \in S : \A j \in S : i <= j
LacksKey(p) == MissingKeys(p) # {}
UnknownMaterial(p) == "material" \in DOMAIN p /\ p.material \notin MaterialSet
EntriesWith(entries, Bad(_)) == {i \in 1..Len(entries) : Bad(entries[i])}

\* the output directory holds exactly what the saves so far left in it
LastSaveOf(f) == CHOOSE i \in 1..Len(written) :
                    /\ written[i].name = f
                    /\ \A j \in (i + 1)..Len(written) : written[j].name # f
OutputsAreTheSaves ==
    /\ DOMAIN outputs = {written[i].name : i \in 1..Len(written)}
    /\ \A f \in DOMAIN outputs : outputs[f] = written[LastSaveOf(f)].image

\* nothing was saved for the file being processed or a later one, and the
\* last image rendered is the one of the last save
NothingSavedFromCurrentFile ==
    /\ \A i \in 1..Len(written) : written[i].file < idx
    /\ img = IF written = <<>> THEN NoImage ELSE written[Len(written)].image
    /\ OutputsAreTheSaves

\* the content of the current file has been read
ReadDone == data # NoData

\* C1: once a file whose "Phantoms" array has an entry without a required key
\* has been read, the process has terminated at or before that entry: the
\* scene holds fewer phantoms than the entry's position, no image was rendered
\* or saved for this file or a later one, and the images saved for earlier
\* files are unchanged.
C1_MissingKeyTerminates ==
    (ReadDone /\ data.kind = "phantoms" /\ EntriesWith(data.entries, LacksKey) # {}) =>
        /\ pc = "exit"
        /\ cause \in {"KeyError", "Exception"}
        /\ Len(scene.phantoms) < FirstOf(EntriesWith(data.entries, LacksKey))
        /\ (cause = "KeyError" =>
              Len(scene.phantoms) + 1 = FirstOf(EntriesWith(data.entries, LacksKey)))
        /\ NothingSavedFromCurrentFile

C1_Witness ==
    /\ cause = "KeyError"
    /\ pc = "exit"
    /\ Len(scene.phantoms) >= 1
    /\ Len(written) >= 1
    /\ idx = 2

\* C2: after a file-level error (file absent, invalid JSON, no top-level
\* "Phantoms" key) the scene has no phantom, the run has not been terminated,
\* and once GenerateImage has saved, the image saved for the file is all white.
\* Runs in which the save itself fails are left aside.
C2_FileLevelErrorsContinue ==
    (ReadDone /\ data.kind \in {"absent", "badjson", "scalar", "nokey"}
       /\ cause # "SaveError") =>
        /\ scene.phantoms = <<>>
        /\ cause \in {"none", "completed"}
        /\ (pc \in {"loop", "exit"} =>
              /\ written # <<>>
              /\ written[Len(written)].name = OutputName(scene.label)
              /\ written[Len(written)].image = NewImage(image_params.px)
              /\ outputs[OutputName(scene.label)] = NewImage(image_params.px))

\* C3: the label of a scene is the first run of digits of the file's name
\* ("0" when it has none), whatever the input directory, and the image is
\* saved as Phantoms_<label>.png.
C3_LabelFromFileName ==
    /\ (pc \in {"read", "gen"} => Str(scene.label) = Str(extract_index(conf_files[idx])))
    /\ \A i \in 1..Len(written) :
         written[i].name = OutputName(extract_index(conf_files[written[i].file]))

\* C4: after a run that ends without a fatal error the output directory holds
\* as many images as the listing has names containing ".json".
C4_OneImagePerFile ==
    (pc = "exit" /\ cause = "completed") =>
        Cardinality(DOMAIN outputs) =
            Cardinality({i \in 1..Len(conf_files) : Contains(conf_files[i], DotJson)})

\* C6: once a file with an entry of unknown material has been read, the
\* process has terminated at or before that entry, no phantom of unknown
\* material is in the scene, and no image was rendered or saved for this file
\* or a later one.
C6_UnknownMaterialTerminates ==
    (ReadDone /\ data.kind = "phantoms"
       /\ EntriesWith(data.entries, UnknownMaterial) # {}) =>
        /\ pc = "exit"
        /\ cause \in {"KeyError", "Exception"}
        /\ Len(scene.phantoms) < FirstOf(EntriesWith(data.entries, UnknownMaterial))
        /\ \A k \in 1..Len(scene.phantoms) : scene.phantoms[k].material \in MaterialSet
        /\ NothingSavedFromCurrentFile

C6_Witness ==
    /\ cause = "Exception"
    /\ pc = "exit"
    /\ EntriesWith(data.entries, UnknownMaterial) = {2}
    /\ Len(scene.phantoms) = 1
    /\ Len(written) >= 1

\* C7: the exit status is 0 exactly when the run completed; a run aborted by
\* a fatal error ends with a non-zero status.
C7_ExitStatus ==
    pc = "exit" => (exit_status = 0 <=> cause = "completed")

\* GenerateImage has rendered the current scene
Rendered ==
    /\ img # NoImage
    /\ pc \in {"loop", "exit"}
    /\ cause \in {"none", "completed", "SaveError"}

Covering(px) == {k \in 1..Len(scene.phantoms) : px \in DiscMemo[scene.phantoms[k]].area}
LastOf(S) == CHOOSE i \in S : \A j \in S : j <= i

\* C8: the scene holds the phantoms in the order of the entries, and in the
\* rendered image every pixel has the fill of the last phantom of the array
\* that covers it (so of two overlapping phantoms the later one wins), and
\* 255 when none covers it.
C8_LaterPhantomWins ==
    Rendered =>
        /\ data.kind = "phantoms" =>
              /\ Len(scene.phantoms) = Len(data.entries)
              /\ \A k \in 1..Len(data.entries) :
                   /\ scene.phantoms[k].name = data.entries[k].name
                   /\ scene.phantoms[k].material = data.entries[k].material
        /\ \A px \in Pixels(image_params.px) :
              img[px] = IF Covering(px) = {} THEN 255
                        ELSE DiscMemo[scene.phantoms[LastOf(Covering(px))]].fill

C8_Witness ==
    /\ Rendered
    /\ \E px, white \in Pixels(image_params.px) :
         /\ Cardinality(Covering(px)) = 2
         /\ \E k \in Covering(px) :
              /\ k # LastOf(Covering(px))
              /\ DiscMemo[scene.phantoms[k]].fill # img[px]
         /\ img[px] = DiscMemo[scene.phantoms[LastOf(Covering(px))]].fill
         /\ Covering(white) = {}
         /\ img[white] = 255

(***************************************************************************)
(* Properties of one phantom (checked under SpecPhantom)                   *)
(***************************************************************************)
\* the density of the claim's table, in thousandths of g/cm^3
Thousandths(material) ==
    CASE material = "lung" -> 296
      [] material = "brain" -> 1040
      [] material = "fat" -> 920
      [] material = "bone" -> 1900

FloatOne == FloatOfInt(1)

\* 0 < x <= 1
InUnitInterval(x) == x.m # <<>> /\ x.s = 0 /\ ~FloatLt(FloatOne, x)

\* The float x is the exact fraction num/den (num >= 0, den > 0) up to
\* rounding: |x - num/den| <= 2^-50 * num/den, in exact arithmetic.
FloatNear(x, num, den) ==
    IF num = 0 THEN x.m = <<>>
    ELSE LET up == IF x.e > 0 THEN x.e ELSE 0
             down == IF x.e < 0 THEN -x.e ELSE 0
             A == BNShl(BNMul(x.m, BNFromNat(den)), up)
             B == BNShl(BNFromNat(num), down)
             diff == IF BNLt(A, B) THEN BNSub(B, A) ELSE BNSub(A, B)
         IN x.s = 0 /\ x.m # <<>> /\ ~BNLt(B, BNShl(diff, 50))

Constructed == probe.stage \in {"phantom", "projected"}
Projected == probe.stage = "projected"

\* C9 as stated: normalizedOpacity equals normalizedDensity, both lie in
\* (0, 1], and bone yields exactly 1.
C9_OpacityEqualsDensity ==
    Constructed =>
        /\ probe.phantom.opacity = probe.phantom.density
        /\ InUnitInterval(probe.phantom.density)
        /\ InUnitInterval(probe.phantom.opacity)
        /\ (probe.args.material = "bone" => probe.phantom.opacity = FloatOne)

\* C9 as amended: normalizedOpacity and normalizedDensity both equal
\* density(material)/1.90 up to floating-point rounding (each within a relative
\* 2^-50 of the exact quotient), both lie in (0, 1], and bone yields exactly 1
\* for both.
C9_OpacityMatchesDensity ==
    Constructed =>
        /\ FloatNear(probe.phantom.density, Thousandths(probe.args.material), 1900)
        /\ FloatNear(probe.phantom.opacity, Thousandths(probe.args.material), 1900)
        /\ InUnitInterval(probe.phantom.density)
        /\ InUnitInterval(probe.phantom.opacity)
        /\ (probe.args.material = "bone" =>
              probe.phantom.opacity = FloatOne /\ probe.phantom.density = FloatOne)

C9_Witness ==
    /\ Constructed
    /\ probe.args.material = "fat"
    /\ probe.args.zsize = <<6, 2>>
    /\ probe.phantom.opacity # probe.phantom.density
    /\ FloatNear(probe.phantom.opacity, 920, 1900)

\* 255 * (1 - d/1.90) for d the density of material: its nearest integer and
\* its integer part
RoundedFill(material) ==
    (2 * 255 * (1900 - Thousandths(material)) + 1900) \div (2 * 1900)
TruncatedFill(material) == (255 * (1900 - Thousandths(material))) \div 1900

\* C5 as stated: the fill is the nearest integer to 255 * (1 - density/1.90).
C5_FillIsRounded ==
    Projected => probe.geom.fill = RoundedFill(probe.args.material)

\* C5 as amended: the fill is 255 * (1 - density/1.90) truncated to its
\* integer part; opacity 1 (bone) gives 0, and a material of higher density
\* never gets a brighter fill.
C5_FillIsTruncated ==
    Projected =>
        /\ probe.geom.fill = TruncatedFill(probe.args.material)
        /\ (probe.phantom.opacity = FloatOne => probe.geom.fill = 0)
        /\ \A m \in MaterialSet :
             Thousandths(m) >= Thousandths(probe.args.material) =>
                 TruncatedFill(m) <= probe.geom.fill

C5_Witness ==
    /\ Projected
    /\ probe.args.material = "fat"
    /\ probe.geom.fill = 131
    /\ RoundedFill("fat") = 132

\* C10: with S = 25 and n = 512 the centre is (n/2 + xPos*n/S, n/2 + yPos*n/S)
\* and the radius r*n/S (exact values, up to rounding), the bounding box is
\* centre -/+ radius; (0, 0) with radius 5 gives centre (256, 256) and radius
\* 102.4, and xPos = 12.5 gives x = 512.
C10_Projection ==
    Projected =>
        LET a == probe.args
            g == probe.geom
            n == main_params.px
            S == main_params.size_cm
        IN /\ FloatNear(g.x, n * S * a.xPos[2] + 2 * a.xPos[1] * n, 2 * S * a.xPos[2])
           /\ FloatNear(g.y, n * S * a.yPos[2] + 2 * a.yPos[1] * n, 2 * S * a.yPos[2])
           /\ FloatNear(g.r, a.radius[1] * n, a.radius[2] * S)
           /\ g.bbox = <<FloatSub(g.x, g.r), FloatSub(g.y, g.r),
                         FloatAdd(g.x, g.r), FloatAdd(g.y, g.r)>>
           /\ (a.xPos = <<0, 1>> /\ a.yPos = <<0, 1>> /\ a.radius = <<5, 1>> =>
                 /\ g.x = FloatOfInt(256)
                 /\ g.y = FloatOfInt(256)
                 /\ g.r = Decimal(1024, 10))
           /\ (a.xPos = <<25, 2>> => g.x = FloatOfInt(512))

C10_Witness ==
    /\ Projected
    /\ probe.args.xPos = <<25, 2>>
    /\ probe.args.radius = <<0, 1>>
    /\ probe.geom.x = FloatOfInt(512)
    /\ probe.geom.bbox[1] = FloatOfInt(512)

====
